---- MODULE Spec2Model ----
(***************************************************************************)
(* A model of the rumah123 property scraper: the Session Accumulator       *)
(* (combine_links.py), the price normaliser and the retrying fetcher       *)
(* (utils.py), the Link Harvester (link_scraper.py) and the Field          *)
(* Extractor with its batch loop (property_scraper.py).                    *)
(*                                                                         *)
(* Text is modelled as a sequence of one-character strings, so that        *)
(* strip, startswith, endswith, substring search and number formatting     *)
(* are computed character by character, as the code computes them.         *)
(***************************************************************************)
EXTENDS Integers, Sequences, FiniteSets, TLC

VARIABLES
    entries,      \* combine_links: what os.listdir(base_folder) holds
    archived,     \* combine_links: how many increment files earlier runs left
    combined,     \* combine_links: the increment files written since
    runs,         \* combine_links: number of accumulator runs so far
    dirty,        \* combine_links: a session link file changed since the last run
    lastRun,      \* combine_links: what the most recent run did
    url,          \* extract_property_details: its url argument
    xpc,          \* extract_property_details: where the call is
    record,       \* extract_property_details: the dict it returned
    failed,       \* extract_property_details: the fetch or the parse failed
    attempt,      \* request_with_backoff: attempt
    fpc,          \* request_with_backoff: where the call is
    resp,         \* request_with_backoff: status code of the last response
    exc,          \* request_with_backoff: the exception requests.get raised last
    wait,         \* request_with_backoff: the wait computed last, in ms
    sleeps,       \* request_with_backoff: number of time.sleep(wait) calls made
    firstFinal,   \* request_with_backoff: first attempt answered outside the forcelist
    links,        \* scrape_all_properties: its links argument
    results_dir,  \* scrape_all_properties: whether results_dir is given
    badUrls,      \* the urls whose page cannot be fetched or parsed
    loop_i,       \* scrape_all_properties: i, the index of the link to handle next
    scraped_urls, \* scrape_all_properties: scraped_urls
    all_properties, \* scrape_all_properties: all_properties
    fetched,      \* scrape_all_properties: urls handed to extract_property_details
    delays,       \* scrape_all_properties: number of time.sleep calls
    interim,      \* scrape_all_properties: records of the latest interim file
    flushes,      \* scrape_all_properties: number of interim files written
    ppc,          \* scrape_all_properties: where the call is
    price_elem,   \* the price element of the page: present or not, and its text
    price_fields, \* property_data["price"] and property_data["price_numeric"]
    cpc,          \* whether the price step of the extraction has run
    index_page,   \* extract_links_from_page: the <a> elements of the page
    index_fetch,  \* extract_links_from_page: how fetching and parsing went
    page_links,   \* extract_links_from_page: the list it returned
    lpc,          \* extract_links_from_page: where the call is
    start_page,   \* scrape_all_links: its start_page argument
    max_pages,    \* scrape_all_links: its max_pages argument
    output_file,  \* scrape_all_links: whether output_file is given
    page_num,     \* scrape_all_links: page, the page to handle next
    fetched_pages, \* scrape_all_links: the pages handed to extract_links_from_page
    page_outcomes, \* scrape_all_links: how each call of extract_links_from_page ended
    page_results, \* scrape_all_links: the list each of those calls returned
    all_links,    \* scrape_all_links: all_links
    all_unique_links, \* scrape_all_links: all_unique_links
    trace,        \* scrape_all_links: its page fetches and time.sleep calls, in order
    link_file,    \* scrape_all_links: the lines of output_file, once written
    hpc,          \* scrape_all_links: where the call is
    data,         \* save_to_csv: its data argument, the key set of each record
    ALL_SPEC_FIELDS, \* property_scraper.ALL_SPEC_FIELDS
    utils_ALL_SPEC_FIELDS, \* utils.ALL_SPEC_FIELDS
    filename,     \* save_to_csv: filename of the call that is running
    write_attempts, \* save_to_csv: the file names it tried to write, in order
    csv_file,     \* save_to_csv: the file it wrote, name and header row
    saved_file,   \* main: saved_file, what save_to_csv returned
    specs_file,   \* save_specs_summary: the rows of the summary file
    spc,          \* main: where the saving of the results is
    split_details, \* extract_property_details: its split_details argument
    soup,         \* extract_property_details: what the selectors find on the page
    property_record, \* extract_property_details: property_data, the dict it builds
    all_specs,    \* extract_property_details: the keys of all_specs
    category_facilities, \* extract_property_details: category_facilities of each category
    all_facilities, \* extract_property_details: all_facilities
    fallback_ran, \* extract_property_details: the fallback branch was entered
    dpc           \* extract_property_details: the step that comes next

cvars == <<entries, archived, combined, runs, dirty, lastRun>>
fvars == <<url, xpc, record, failed, attempt, fpc, resp, exc, wait, sleeps,
           firstFinal>>

pvars == <<links, results_dir, badUrls, loop_i, scraped_urls, all_properties, fetched,
           delays, interim, flushes, ppc>>

xvars == <<price_elem, price_fields, cpc>>

lvars == <<index_page, index_fetch, page_links, lpc>>

hvars == <<start_page, max_pages, output_file, page_num, fetched_pages, page_outcomes,
           page_results, all_links, all_unique_links, trace, link_file, hpc>>

svars == <<data, ALL_SPEC_FIELDS, utils_ALL_SPEC_FIELDS, filename, write_attempts,
           csv_file, saved_file, specs_file, spc>>

dvars == <<split_details, soup, property_record, all_specs, category_facilities,
           all_facilities, fallback_ran, dpc>>

vars == <<cvars, fvars, pvars, xvars, lvars, hvars, svars, dvars>>

\* the variables of the other components, which a component leaves alone
CombineIdle ==
    /\ entries = <<>> /\ archived = 0 /\ combined = <<>>
    /\ runs = 0 /\ dirty = FALSE /\ lastRun = <<>>

FetchIdle ==
    /\ url = "" /\ xpc = "idle" /\ record = <<>> /\ failed = FALSE
    /\ attempt = 0 /\ fpc = "idle" /\ resp = 0 /\ exc = "" /\ wait = 0
    /\ sleeps = 0
    /\ firstFinal = 0

LinksIdle ==
    index_page = <<>> /\ index_fetch = "" /\ page_links = <<>> /\ lpc = "idle"

HarvestIdle ==
    /\ start_page = 0 /\ max_pages = 0 /\ output_file = FALSE /\ page_num = 0
    /\ fetched_pages = <<>> /\ page_outcomes = <<>> /\ page_results = <<>>
    /\ all_links = <<>> /\ all_unique_links = {} /\ trace = <<>>
    /\ link_file = <<>> /\ hpc = "idle"

SinkIdle ==
    /\ data = <<>> /\ ALL_SPEC_FIELDS = {} /\ utils_ALL_SPEC_FIELDS = {}
    /\ filename = <<>> /\ write_attempts = <<>> /\ csv_file = <<>>
    /\ saved_file = <<>> /\ specs_file = <<>> /\ spc = "idle"

DetailsIdle ==
    /\ split_details = FALSE /\ soup = <<>> /\ property_record = <<>>
    /\ all_specs = <<>> /\ category_facilities = <<>> /\ all_facilities = <<>>
    /\ fallback_ran = FALSE /\ dpc = "idle"

PriceIdle == price_elem = <<>> /\ price_fields = <<>> /\ cpc = "idle"

PropsIdle ==
    /\ links = <<>> /\ results_dir = FALSE /\ badUrls = {} /\ loop_i = 0
    /\ scraped_urls = {} /\ all_properties = <<>> /\ fetched = <<>>
    /\ delays = 0 /\ interim = <<>> /\ flushes = 0 /\ ppc = "idle"

(***************************************************************************)
(* Text helpers                                                            *)
(***************************************************************************)

\* Code points of the characters used in the model (Python compares and
\* sorts str by code point).
Ord(c) ==
    CASE c = " " -> 32
      [] c = "," -> 44
      [] c = "." -> 46
      [] c = "/" -> 47
      [] c = "0" -> 48 [] c = "1" -> 49 [] c = "2" -> 50 [] c = "3" -> 51
      [] c = "4" -> 52 [] c = "5" -> 53 [] c = "6" -> 54 [] c = "7" -> 55
      [] c = "8" -> 56 [] c = "9" -> 57
      [] c = "M" -> 77 [] c = "J" -> 74 [] c = "R" -> 82
      [] c = "a" -> 97 [] c = "b" -> 98 [] c = "c" -> 99
      [] c = "h" -> 104
      [] c = "_" -> 95
      [] c = "d" -> 100 [] c = "e" -> 101 [] c = "f" -> 102 [] c = "g" -> 103
      [] c = "i" -> 105 [] c = "j" -> 106 [] c = "k" -> 107 [] c = "l" -> 108
      [] c = "m" -> 109 [] c = "n" -> 110 [] c = "o" -> 111 [] c = "p" -> 112
      [] c = "q" -> 113 [] c = "r" -> 114 [] c = "s" -> 115 [] c = "t" -> 116
      [] c = "u" -> 117 [] c = "v" -> 118 [] c = "w" -> 119 [] c = "x" -> 120
      [] c = "y" -> 121 [] c = "z" -> 122
      [] OTHER -> 120

IsSpace(c) == c = " "

\* str.lstrip() / str.rstrip() / str.strip()
RECURSIVE LStrip(_)
LStrip(s) == IF s # <<>> /\ IsSpace(Head(s)) THEN LStrip(Tail(s)) ELSE s

RECURSIVE RStrip(_)
RStrip(s) ==
    IF s # <<>> /\ IsSpace(s[Len(s)]) THEN RStrip(SubSeq(s, 1, Len(s) - 1)) ELSE s

Strip(s) == RStrip(LStrip(s))

\* str < str: lexicographic by code point, a proper prefix first
RECURSIVE StrLess(_, _)
StrLess(s, t) ==
    IF t = <<>> THEN FALSE
    ELSE IF s = <<>> THEN TRUE
    ELSE IF Ord(Head(s)) < Ord(Head(t)) THEN TRUE
    ELSE IF Ord(Head(s)) > Ord(Head(t)) THEN FALSE
    ELSE StrLess(Tail(s), Tail(t))

\* sorted(set of str)
RECURSIVE Sorted(_)
Sorted(S) ==
    IF S = {} THEN <<>>
    ELSE LET m == CHOOSE x \in S : \A y \in S \ {x} : StrLess(x, y)
         IN  <<m>> \o Sorted(S \ {m})

Range(f) == {f[i] : i \in DOMAIN f}

DigitChars == <<"0", "1", "2", "3", "4", "5", "6", "7", "8", "9">>

IsDigit(c) == c \in Range(DigitChars)

DigitValues == [c \in Range(DigitChars) |-> (CHOOSE i \in 1..10 : DigitChars[i] = c) - 1]

DigitVal(c) == DigitValues[c]

\* int("007") = 7
RECURSIVE ParseInt(_)
ParseInt(ds) ==
    IF ds = <<>> THEN 0
    ELSE ParseInt(SubSeq(ds, 1, Len(ds) - 1)) * 10 + DigitVal(ds[Len(ds)])

\* str(n) for n >= 0
RECURSIVE ToDigits(_)
ToDigits(n) ==
    IF n < 10 THEN <<DigitChars[n + 1]>>
    ELSE ToDigits(n \div 10) \o <<DigitChars[(n % 10) + 1]>>

(***************************************************************************)
(* Session Accumulator (combine_links.py)                                  *)
(***************************************************************************)

MaxLines == 2     \* lines in one property_links.txt
MaxRuns == 2      \* accumulator runs explored
LegacyRuns == 98  \* runs that may have happened before the explored ones

\* The raw lines a session link file may hold, newline removed.
RawLines == {<<>>, <<" ", "a", " ">>, <<"b">>}

FileContents == UNION {[1..n -> RawLines] : n \in 0..MaxLines}

SessionNames == {"scraping_session_1", "scraping_session_2"}
EntryNames == SessionNames \cup {"scraping_session_0", "combined_links", "notes.txt"}

\* f"combined_property_links_{new_index:02}.txt": the digits of the name
FormatIndex(n) ==
    IF Len(ToDigits(n)) < 2 THEN <<"0">> \o ToDigits(n) ELSE ToDigits(n)

\* The link the i-th earlier run recorded.
LegacyLink(i) == <<"h">> \o ToDigits(i)

EmptyFolder == [nm \in {} |-> <<>>]

\* The increment files that LegacyRuns earlier runs left, one new link each.
LegacyFolder ==
    EmptyFolder @@
    [nm \in {FormatIndex(i) : i \in 1..LegacyRuns} |-> <<LegacyLink(ParseInt(nm))>>]

\* combined_links/ as os.listdir sees it: file name -> lines
Folder(arch, recent) ==
    LET old == IF arch = 0 THEN EmptyFolder ELSE LegacyFolder
    IN  recent @@ old

\* the result of max_index = max(max_index, index) over the indexes in S
\* (the greatest element, found as the least of the negated ones)
MaxFrom(m, S) ==
    LET N == {0 - v : v \in S \cup {m}}
    IN  0 - (CHOOSE x \in N : \A y \in N : x <= y)

\* an index taken from the number of files instead of the highest suffix
get_latest_index_count(folder) == Cardinality(DOMAIN folder) - 1

\* max_index over the files matching combined_property_links_(\d+)\.txt
get_latest_combined_file_index(folder) ==
    MaxFrom(0, {ParseInt(nm) : nm \in DOMAIN folder})

\* every stripped line of every increment file
read_all_combined_links(folder) ==
    UNION {{Strip(folder[nm][i]) : i \in 1..Len(folder[nm])} : nm \in DOMAIN folder}

\* the test without entry != "combined_links"
IsSessionAnyDir(es, e) == es[e].kind = "dir" /\ es[e].hasLinks

\* a session subdirectory: a directory other than combined_links holding
\* a property_links.txt
IsSession(es, e) ==
    es[e].kind = "dir" /\ e # "combined_links" /\ es[e].hasLinks

\* the loop without the "not in previous_links" test
NewLinksNoFilter(es, previous_links) ==
    UNION {{Strip(es[e].links[i]) : i \in 1..Len(es[e].links)} \ {<<>>}
           : e \in {x \in DOMAIN es : IsSession(es, x)}}

\* current_new_links after the loop over os.listdir(base_folder)
NewLinks(es, previous_links) ==
    UNION {{Strip(es[e].links[i]) : i \in 1..Len(es[e].links)}
              \ ({<<>>} \cup previous_links)
           : e \in {x \in DOMAIN es : IsSession(es, x)}}

\* a write that leaves only the written file in the folder
WriteFileAlone(recent, nm, lines) == [x \in {nm} |-> lines]

\* open(name, "w") and the writes: creates the file or replaces its lines
WriteFile(recent, nm, lines) ==
    [x \in DOMAIN recent \cup {nm} |-> IF x = nm THEN lines ELSE recent[x]]

Absent == [kind |-> "absent", hasLinks |-> FALSE, links |-> <<>>]
EmptyDir == [kind |-> "dir", hasLinks |-> FALSE, links |-> <<>>]
PlainFile == [kind |-> "file", hasLinks |-> FALSE, links |-> <<>>]
StrayDir == [kind |-> "dir", hasLinks |-> TRUE, links |-> <<<<"a">>, <<"c">>>>]

\* One run of main.py in links mode: os.makedirs(results_dir), then
\* scrape_all_links writes <results_dir>/property_links.txt.
WriteSessionLinks(e, content) ==
    /\ entries[e].kind = "absent"
    /\ entries' = [entries EXCEPT ![e] = [kind |-> "dir", hasLinks |-> TRUE, links |-> content]]
    /\ dirty' = TRUE
    /\ UNCHANGED <<archived, combined, runs, lastRun>>
    /\ UNCHANGED <<fvars, pvars, xvars, lvars, hvars, svars, dvars>>

\* one call of combine_property_links(base_folder)
CombinePropertyLinks ==
    /\ runs < MaxRuns
    /\ LET es == [entries EXCEPT !["combined_links"] =
                     IF @.kind = "dir" THEN @ ELSE EmptyDir]
           folder == Folder(archived, combined)
           previous_links == read_all_combined_links(folder)
           current_new_links == NewLinks(es, previous_links)
           new_index == get_latest_combined_file_index(folder) + 1
           new_name == FormatIndex(new_index)
       IN  /\ entries' = es
           /\ runs' = runs + 1
           /\ dirty' = FALSE
           /\ IF current_new_links # {}
              THEN /\ combined' = WriteFile(combined, new_name, Sorted(current_new_links))
                   /\ lastRun' = [created |-> {new_name}, quiet |-> runs > 0 /\ ~dirty]
              ELSE /\ combined' = combined
                   /\ lastRun' = [created |-> {}, quiet |-> runs > 0 /\ ~dirty]
    /\ UNCHANGED archived
    /\ UNCHANGED <<fvars, pvars, xvars, lvars, hvars, svars, dvars>>

\* The base folder before the explored runs: a plain file, a session run in
\* details mode (no link file), and possibly a combined_links directory that
\* main.py was pointed at with --output-dir and so holds a link file itself.
InitCombine ==
    /\ \E stray \in {Absent, StrayDir} :
          entries = [e \in EntryNames |->
                        IF e = "notes.txt" THEN PlainFile
                        ELSE IF e = "scraping_session_0" THEN EmptyDir
                        ELSE IF e = "combined_links" THEN stray
                        ELSE Absent]
    /\ archived \in {0, LegacyRuns}
    /\ combined = EmptyFolder
    /\ runs = 0
    /\ dirty = FALSE
    /\ lastRun = [created |-> {}, quiet |-> FALSE]
    /\ FetchIdle
    /\ PropsIdle
    /\ PriceIdle
    /\ LinksIdle
    /\ HarvestIdle
    /\ SinkIdle
    /\ DetailsIdle

NextCombine ==
    \/ \E e \in SessionNames, c \in FileContents : WriteSessionLinks(e, c)
    \/ CombinePropertyLinks

SpecCombine == InitCombine /\ [][NextCombine]_vars

(***************************************************************************)
(* Page Fetcher (utils.request_with_backoff) and the outer shell of the    *)
(* Field Extractor (property_scraper.extract_property_details)             *)
(***************************************************************************)

MaxAttempts == 7     \* attempts of one request_with_backoff call explored
WaitCap == 60        \* min(60, 2 ** attempt)
JitterMs == {0, 500, 1000}   \* random.uniform(0, 1), in milliseconds

\* a forcelist that leaves out 429
forcelist_without_429 == {500, 502, 503, 504}

\* status_forcelist=(429, 500, 502, 503, 504)
status_forcelist == {429, 500, 502, 503, 504}

\* status codes a server answers with
Statuses == {200, 404, 429, 500, 502, 503, 504}

\* what one requests.get can do: answer with a status code, raise a
\* requests.RequestException, or raise another Exception
Outcomes ==
    [kind : {"response"}, status : Statuses]
    \cup {[kind |-> "RequestException", status |-> 0],
          [kind |-> "OtherException", status |-> 0]}

RECURSIVE Pow2(_)
Pow2(n) == IF n = 0 THEN 1 ELSE 2 * Pow2(n - 1)

Min(a, b) == IF a < b THEN a ELSE b

\* a wait without the cap
BackoffWaitUncapped(att, jitter) == Pow2(att) * 1000 + jitter

\* wait = min(60, 2 ** attempt) + random.uniform(0, 1), in milliseconds
BackoffWait(att, jitter) == Min(WaitCap, Pow2(att)) * 1000 + jitter

\* the urls handed to extract_property_details: a listing, a page outside
\* /properti/ (only logged) and a value urlparse cannot handle
Urls == {"https://www.rumah123.com/properti/a/", "https://www.rumah123.com/jual/", "None"}

UrlParseRaises(u) == u = "None"

CoreKeys ==
    {"url", "title", "location", "price", "price_numeric", "original_price",
     "original_price_numeric", "savings", "property_type", "updated_date",
     "posted_by", "description", "installment_info", "specifications_text",
     "facilities_text", "poi_text", "fasilitas_rumah_text",
     "fasilitas_perumahan_text", "perabotan_text"}

TextKeys ==
    {"specifications_text", "facilities_text", "poi_text", "fasilitas_rumah_text",
     "fasilitas_perumahan_text", "perabotan_text"}

\* property_data as initialised: url set, text fields "", the rest None
InitialPropertyData(u) ==
    [k \in CoreKeys |-> IF k = "url" THEN u ELSE IF k \in TextKeys THEN "" ELSE "None"]

\* an except clause that forgets the url
ErrorRecordNoUrl(u) == [k \in {"error"} |-> "error text"]

\* {"url": url, "error": str(e)}
ErrorRecord(u) == [k \in {"url", "error"} |-> IF k = "url" THEN u ELSE "error text"]

\* response.raise_for_status()
RaisesForStatus(status) == status >= 400 /\ status < 600

\* extract_property_details is entered: urlparse(url), then the fetch starts
ExtractCall ==
    /\ xpc = "called"
    /\ IF UrlParseRaises(url)
       THEN /\ xpc' = "returned"
            /\ record' = ErrorRecord(url)
            /\ failed' = TRUE
            /\ UNCHANGED <<attempt, fpc>>
       ELSE /\ xpc' = "fetching"
            /\ fpc' = "request"
            /\ attempt' = 0
            /\ UNCHANGED <<record, failed>>
    /\ UNCHANGED <<url, resp, exc, wait, sleeps, firstFinal>>
    /\ UNCHANGED <<cvars, pvars, xvars, lvars, hvars, svars, dvars>>

\* one pass of the while True loop of request_with_backoff: attempt += 1,
\* requests.get, and either return resp, log and compute the wait, or let an
\* exception that is no RequestException propagate
Attempt(o, jitter) ==
    /\ fpc = "request"
    /\ attempt < MaxAttempts
    /\ attempt' = attempt + 1
    /\ firstFinal' = IF /\ firstFinal = 0
                        /\ o.kind = "response"
                        /\ o.status \notin {429, 500, 502, 503, 504}
                     THEN attempt + 1 ELSE firstFinal
    /\ resp' = IF o.kind = "response" THEN o.status ELSE resp
    /\ exc' = IF o.kind = "response" THEN exc ELSE o.kind
    /\ IF o.kind = "response" /\ o.status \notin status_forcelist
       THEN fpc' = "returned" /\ wait' = wait
       ELSE IF o.kind = "OtherException"
       THEN fpc' = "raised" /\ wait' = wait
       ELSE fpc' = "sleep" /\ wait' = BackoffWait(attempt + 1, jitter)
    /\ UNCHANGED <<url, xpc, record, failed, sleeps>>
    /\ UNCHANGED <<cvars, pvars, xvars, lvars, hvars, svars, dvars>>

\* time.sleep(wait) returns and the loop goes round
Sleep ==
    /\ fpc = "sleep"
    /\ fpc' = "request"
    /\ sleeps' = sleeps + 1
    /\ UNCHANGED <<url, xpc, record, failed, attempt, resp, exc, wait, firstFinal>>
    /\ UNCHANGED <<cvars, pvars, xvars, lvars, hvars, svars, dvars>>

\* request_with_backoff has returned: raise_for_status, BeautifulSoup and the
\* field extraction, any exception of which ends in the except clause
ExtractFinish(parse) ==
    /\ xpc = "fetching"
    /\ fpc = "returned"
    /\ xpc' = "returned"
    /\ IF RaisesForStatus(resp) \/ parse = "raises"
       THEN record' = ErrorRecord(url) /\ failed' = TRUE
       ELSE record' = InitialPropertyData(url) /\ failed' = FALSE
    /\ UNCHANGED <<url, attempt, fpc, resp, exc, wait, sleeps, firstFinal>>
    /\ UNCHANGED <<cvars, pvars, xvars, lvars, hvars, svars, dvars>>

\* request_with_backoff let an exception through: the except clause
ExtractFetchRaised ==
    /\ xpc = "fetching"
    /\ fpc = "raised"
    /\ xpc' = "returned"
    /\ record' = ErrorRecord(url)
    /\ failed' = TRUE
    /\ UNCHANGED <<url, attempt, fpc, resp, exc, wait, sleeps, firstFinal>>
    /\ UNCHANGED <<cvars, pvars, xvars, lvars, hvars, svars, dvars>>

InitFetch ==
    /\ url \in Urls
    /\ xpc = "called"
    /\ record = <<>>
    /\ failed = FALSE
    /\ attempt = 0
    /\ fpc = "idle"
    /\ resp = 0
    /\ exc = ""
    /\ wait = 0
    /\ sleeps = 0
    /\ firstFinal = 0
    /\ CombineIdle
    /\ PropsIdle
    /\ PriceIdle
    /\ LinksIdle
    /\ HarvestIdle
    /\ SinkIdle
    /\ DetailsIdle

NextFetch ==
    \/ ExtractCall
    \/ \E o \in Outcomes, j \in JitterMs : Attempt(o, j)
    \/ Sleep
    \/ \E parse \in {"ok", "raises"} : ExtractFinish(parse)
    \/ ExtractFetchRaised

SpecFetch == InitFetch /\ [][NextFetch]_vars

(***************************************************************************)
(* The batch loop (property_scraper.scrape_all_properties)                 *)
(***************************************************************************)

MaxLinks == 3      \* length of the short link lists
MaxUrls == 2       \* distinct urls in the short link lists
BatchSize == 100   \* (i + 1) % 100 == 0

\* Link lists: every short list over the urls 1..MaxUrls, and lists of
\* BatchSize and BatchSize + 1 distinct urls, which reach the periodic save.
ShortLists == UNION {[1..n -> 1..MaxUrls] : n \in 0..MaxLinks}
LongLists == {[k \in 1..n |-> k] : n \in {BatchSize, BatchSize + 1}}

\* what extract_property_details(link, False) returns: by C5 a record with
\* the url, an error record when the page cannot be fetched or parsed
ExtractResult(u, bad) == IF u \in bad THEN ErrorRecord(u) ELSE InitialPropertyData(u)

\* a test that takes an error record for no data
TruthyUnlessError(rec) == "error" \notin DOMAIN rec

\* if property_data: a dict is true unless it is empty
Truthy(rec) == DOMAIN rec # {}

\* (i + 1) % 100 == 0 or (i + 1) == len(links), i counted from 0
SaveDue(idx, n) == (idx + 1) % BatchSize = 0 \/ (idx + 1) = n

\* one iteration of the for loop, with loop_i the 0-based index of the link
ScrapeIteration ==
    /\ ppc = "loop"
    /\ loop_i < Len(links)
    /\ LET link == links[loop_i + 1]
           property_data == ExtractResult(link, badUrls)
       IN  IF link \in scraped_urls
           THEN \* continue
                UNCHANGED <<scraped_urls, all_properties, fetched, delays,
                            interim, flushes>>
           ELSE /\ delays' = IF loop_i > 0 THEN delays + 1 ELSE delays
                /\ fetched' = Append(fetched, link)
                /\ IF Truthy(property_data)
                   THEN /\ all_properties' = Append(all_properties, property_data)
                        /\ scraped_urls' = scraped_urls \cup {link}
                        /\ IF SaveDue(loop_i, Len(links)) /\ results_dir
                           THEN /\ interim' = all_properties'
                                /\ flushes' = flushes + 1
                           ELSE UNCHANGED <<interim, flushes>>
                   ELSE UNCHANGED <<all_properties, scraped_urls, interim, flushes>>
    /\ loop_i' = loop_i + 1
    /\ UNCHANGED <<links, results_dir, badUrls, ppc>>
    /\ UNCHANGED <<cvars, fvars, xvars, lvars, hvars, svars, dvars>>

\* the loop is over: return all_properties
ScrapeReturn ==
    /\ ppc = "loop"
    /\ loop_i = Len(links)
    /\ ppc' = "returned"
    /\ UNCHANGED <<links, results_dir, badUrls, loop_i, scraped_urls, all_properties,
                   fetched, delays, interim, flushes>>
    /\ UNCHANGED <<cvars, fvars, xvars, lvars, hvars, svars, dvars>>

InitProps ==
    /\ links \in ShortLists \cup LongLists
    /\ results_dir \in BOOLEAN
    /\ badUrls \in SUBSET (1..MaxUrls)
    /\ loop_i = 0
    /\ scraped_urls = {}
    /\ all_properties = <<>>
    /\ fetched = <<>>
    /\ delays = 0
    /\ interim = <<>>
    /\ flushes = 0
    /\ ppc = "loop"
    /\ CombineIdle
    /\ FetchIdle
    /\ PriceIdle
    /\ LinksIdle
    /\ HarvestIdle
    /\ SinkIdle
    /\ DetailsIdle

NextProps == ScrapeIteration \/ ScrapeReturn

SpecProps == InitProps /\ [][NextProps]_vars

(***************************************************************************)
(* Price normalisation (utils.clean_price) and the price step of           *)
(* extract_property_details                                                *)
(***************************************************************************)

\* str.lower() on the letters the price texts use
Lower(c) ==
    CASE c = "M" -> "m" [] c = "J" -> "j" [] c = "R" -> "r" [] c = "U" -> "u"
      [] c = "T" -> "t" [] c = "A" -> "a" [] c = "B" -> "b" [] c = "I" -> "i"
      [] c = "C" -> "c" [] c = "D" -> "d" [] c = "E" -> "e" [] c = "F" -> "f"
      [] c = "G" -> "g" [] c = "H" -> "h" [] c = "K" -> "k" [] c = "L" -> "l"
      [] c = "N" -> "n" [] c = "O" -> "o" [] c = "P" -> "p" [] c = "Q" -> "q"
      [] c = "S" -> "s" [] c = "V" -> "v" [] c = "W" -> "w" [] c = "X" -> "x"
      [] c = "Y" -> "y" [] c = "Z" -> "z"
      [] OTHER -> c

LowerStr(s) == [k \in 1..Len(s) |-> Lower(s[k])]

\* sub in s
Contains(s, sub) ==
    \E k \in 1..(Len(s) - Len(sub) + 1) : SubSeq(s, k, k + Len(sub) - 1) = sub

\* re.sub(r'[^\d,.]', '', price_text)
RECURSIVE KeepNumeric(_)
KeepNumeric(s) ==
    IF s = <<>> THEN <<>>
    ELSE IF IsDigit(Head(s)) \/ Head(s) \in {",", "."}
         THEN <<Head(s)>> \o KeepNumeric(Tail(s))
         ELSE KeepNumeric(Tail(s))

\* clean.replace(',', '.')
CommaToDot(s) == [k \in 1..Len(s) |-> IF s[k] = "," THEN "." ELSE s[k]]

DotCount(s) == Cardinality({k \in 1..Len(s) : s[k] = "."})

RECURSIVE DropDots(_)
DropDots(s) ==
    IF s = <<>> THEN <<>>
    ELSE IF Head(s) = "." THEN DropDots(Tail(s))
    ELSE <<Head(s)>> \o DropDots(Tail(s))

\* float(clean) raises ValueError unless clean is digits with at most one
\* "." and at least one digit
FloatParses(s) == DotCount(s) <= 1 /\ DropDots(s) # <<>>

\* float(clean) as mantissa and number of decimals: "1.5" is 15 / 10^1
FloatOf(s) ==
    LET dot == IF DotCount(s) = 0 THEN Len(s) + 1
               ELSE CHOOSE k \in 1..Len(s) : s[k] = "."
    IN  [num |-> ParseInt(DropDots(s)), dec |-> IF DotCount(s) = 0 THEN 0 ELSE Len(s) - dot]

Str_miliar == <<"m", "i", "l", "i", "a", "r">>
Str_m == <<"m">>
Str_juta == <<"j", "u", "t", "a">>
Str_ribu == <<"r", "i", "b", "u">>
Str_rb == <<"r", "b">>

\* the multiplier as a power of ten: 9 for 1000000000, 6 for 1000000,
\* 3 for 1000, 0 for 1
MultiplierExp(price_text) ==
    LET low == LowerStr(price_text)
    IN  IF Contains(low, Str_miliar) \/ Contains(low, Str_m) THEN 9
        ELSE IF Contains(low, Str_juta) THEN 6
        ELSE IF Contains(low, Str_ribu) \/ Contains(low, Str_rb) THEN 3
        ELSE 0

NoneValue == [kind |-> "None"]

\* a clean_price without the "if not price_text" guard
clean_price_unguarded(price_text) ==
    LET clean == CommaToDot(KeepNumeric(price_text))
    IN  IF FloatParses(clean)
        THEN [kind |-> "float", num |-> FloatOf(clean).num,
              exp |-> MultiplierExp(price_text) - FloatOf(clean).dec]
        ELSE [kind |-> "str", text |-> price_text]

\* clean_price(price_text): None, a float (num * 10^exp), or the text back
clean_price(price_text) ==
    IF price_text = <<>> THEN NoneValue
    ELSE LET clean == CommaToDot(KeepNumeric(price_text))
         IN  IF FloatParses(clean)
             THEN [kind |-> "float", num |-> FloatOf(clean).num,
                   exp |-> MultiplierExp(price_text) - FloatOf(clean).dec]
             ELSE [kind |-> "str", text |-> price_text]

\* The texts a price element may hold: currency prefix, number, unit word,
\* trailing remark, each possibly missing.
PricePrefixes == {<<>>, <<"R", "p", " ">>, <<" ">>}
PriceNumbers ==
    {<<>>, <<"5">>, <<"1", ",", "5">>, <<"1", ".", "5", "0", "0">>,
     <<"1", ".", "5", "0", "0", ".", "0", "0", "0">>, <<",">>}
PriceUnits ==
    {<<>>, <<" ", "M", "i", "l", "i", "a", "r">>, <<" ", "J", "u", "t", "a">>,
     <<" ", "J", "U", "T", "A">>, <<" ", "R", "i", "b", "u">>, <<" ", "r", "b">>,
     <<" ", "M">>}
PriceRemarks == {<<>>, <<"/", "m">>, <<" ", "n", "e", "g", "o">>}

PriceTexts ==
    {a \o b \o c \o d : a \in PricePrefixes, b \in PriceNumbers,
                        c \in PriceUnits, d \in PriceRemarks}

\* price_element = soup.select_one(...); if price_element: price_text =
\* price_element.text.strip(); price and price_numeric are set
ExtractPrice ==
    /\ cpc = "called"
    /\ cpc' = "returned"
    /\ price_fields' =
          IF price_elem.present
          THEN [price |-> [kind |-> "str", text |-> Strip(price_elem.text)],
                price_numeric |-> clean_price(Strip(price_elem.text))]
          ELSE [price |-> NoneValue, price_numeric |-> NoneValue]
    /\ UNCHANGED price_elem
    /\ UNCHANGED <<cvars, fvars, pvars, lvars, hvars, svars, dvars>>

InitPrice ==
    /\ price_elem \in [present : {TRUE}, text : PriceTexts]
                      \cup {[present |-> FALSE, text |-> <<>>]}
    /\ price_fields = [price |-> NoneValue, price_numeric |-> NoneValue]
    /\ cpc = "called"
    /\ CombineIdle
    /\ FetchIdle
    /\ PropsIdle
    /\ LinksIdle
    /\ HarvestIdle
    /\ SinkIdle
    /\ DetailsIdle

NextPrice == ExtractPrice

SpecPrice == InitPrice /\ [][NextPrice]_vars

(***************************************************************************)
(* Link Harvester (link_scraper.extract_links_from_page)                   *)
(***************************************************************************)

MaxAnchors == 2    \* <a> elements on one index page

\* base_url="https://www.rumah123.com"
Origin == <<"h", "t", "t", "p", "s", ":", "/", "/", "w", "w", "w", ".", "r", "u", "m", "a", "h", "1", "2", "3", ".", "c", "o", "m">>

\* "/properti/" and "/"
ListingPrefix == <<"/", "p", "r", "o", "p", "e", "r", "t", "i", "/">>
Slash == <<"/">>

\* The href values an <a> of an index page may carry.
Hrefs ==
    {<<"/", "p", "r", "o", "p", "e", "r", "t", "i", "/", "a", "/">>,
     <<"/", "p", "r", "o", "p", "e", "r", "t", "i", "/", "b", "/">>,
     <<"/", "p", "r", "o", "p", "e", "r", "t", "i", "/", "a">>,
     <<"/", "o", "t", "h", "e", "r", "/", "x", "/">>,
     <<"/", "p", "r", "o", "p", "e", "r", "t", "i", "/">>,
     <<"/", "p", "r", "o", "p", "e", "r", "t", "i", "a", "/">>,
     <<"p", "r", "o", "p", "e", "r", "t", "i", "/", "a", "/">>}

\* an <a> with an href, or one without (find_all("a", href=True) skips it)
Anchors == [hasHref : {TRUE}, href : Hrefs] \cup {[hasHref |-> FALSE, href |-> <<>>]}

IndexPages == UNION {[1..n -> Anchors] : n \in 0..MaxAnchors}

\* str.startswith / str.endswith
StartsWith(s, pre) == Len(s) >= Len(pre) /\ SubSeq(s, 1, Len(pre)) = pre
EndsWith(s, suf) == Len(s) >= Len(suf) /\ SubSeq(s, Len(s) - Len(suf) + 1, Len(s)) = suf

\* the href test without href.endswith("/")
IsListingHrefNoSlash(href) == StartsWith(href, ListingPrefix)

\* href.startswith("/properti/") and href.endswith("/")
IsListingHref(href) == StartsWith(href, ListingPrefix) /\ EndsWith(href, Slash)

\* property_links after the loop over soup.find_all("a", href=True)
PropertyLinks(page, base_url) ==
    {base_url \o page[k].href :
        k \in {j \in 1..Len(page) : page[j].hasHref /\ IsListingHref(page[j].href)}}

\* list(a_set): the elements of the set, each once, in some order
ListsOf(S) == {q \in [1..Cardinality(S) -> S] : Range(q) = S}

\* one call of extract_links_from_page: the fetch and raise_for_status may
\* raise, and so may the parse; any exception ends in "return []"
ExtractLinksFromPage(q) ==
    /\ lpc = "called"
    /\ lpc' = "returned"
    /\ IF index_fetch = "ok"
       THEN q \in ListsOf(PropertyLinks(index_page, Origin))
       ELSE q = <<>>
    /\ page_links' = q
    /\ UNCHANGED <<index_page, index_fetch>>
    /\ UNCHANGED <<cvars, fvars, pvars, xvars, hvars, svars, dvars>>

InitLinks ==
    /\ index_page \in IndexPages
    /\ index_fetch \in {"ok", "http_error", "exception"}
    /\ page_links = <<>>
    /\ lpc = "called"
    /\ CombineIdle
    /\ FetchIdle
    /\ PropsIdle
    /\ PriceIdle
    /\ HarvestIdle
    /\ SinkIdle
    /\ DetailsIdle

NextLinks ==
    \E q \in UNION {[1..n -> {Origin \o h : h \in Hrefs}] : n \in 0..MaxAnchors} :
       ExtractLinksFromPage(q)

SpecLinks == InitLinks /\ [][NextLinks]_vars

(***************************************************************************)
(* Link Harvester, the page loop (link_scraper.scrape_all_links)           *)
(***************************************************************************)

MaxPages == 3        \* largest max_pages explored
MaxPageLinks == 2    \* links one index page yields at most

StartPages == {1, 4}
SiteLinks == {"u1", "u2", "u3"}

\* what extract_links_from_page can return: list(property_links), a list
\* without repetition in the order the set happens to give; [] on failure
PageLists ==
    {q \in UNION {[1..n -> SiteLinks] : n \in 0..MaxPageLinks} :
        \A j, k \in 1..Len(q) : q[j] = q[k] => j = k}

\* end_page = start_page + max_pages - 1
EndPage(sp, mp) == sp + mp - 1

\* a loop that appends every link of the page
RECURSIVE AppendAll(_, _)
AppendAll(acc, ls) ==
    IF ls = <<>> THEN acc
    ELSE AppendAll([links |-> Append(acc.links, Head(ls)),
                    unique |-> acc.unique \cup {Head(ls)}], Tail(ls))

\* for link in links: if link not in all_unique_links: add it and append it
RECURSIVE AppendNew(_, _)
AppendNew(acc, ls) ==
    IF ls = <<>> THEN acc
    ELSE AppendNew(IF Head(ls) \in acc.unique
                   THEN acc
                   ELSE [links |-> Append(acc.links, Head(ls)),
                         unique |-> acc.unique \cup {Head(ls)}],
                   Tail(ls))

\* a delay after every page, the last included
DelayAfterEveryPage(pg, endp) == pg <= endp

\* if page < end_page
DelayDue(pg, endp) == pg < endp

NoLinkFile == [written |-> FALSE, lines |-> <<>>]

\* how the body of extract_links_from_page ends: it runs through, or
\* res.raise_for_status() raises for the answer request_with_backoff
\* returned, or any other statement of the try block raises
PageOutcomes == {"ok", "http_error", "exception"}

\* a handler for the errors of the answer's status only
CaughtHttpErrorOnly(o) == o = "http_error"

\* except Exception as e: whatever the try block raised is caught
Caught(o) == o \in PageOutcomes \ {"ok"}

\* return list(property_links) at the end of the try block, return [] from
\* the handler, whatever property_links held when the exception came
ExtractedLinks(o, q) == IF o = "ok" THEN q ELSE <<>>

\* one pass of the for loop: build the url of the page, call
\* extract_links_from_page, take the links not seen before, and sleep unless
\* this was the last page; the loop has no handler of its own, so an
\* exception extract_links_from_page let through would end the run
ScrapePage(o, q) ==
    /\ hpc = "loop"
    /\ page_num <= EndPage(start_page, max_pages)
    /\ fetched_pages' = Append(fetched_pages, page_num)
    /\ page_outcomes' = Append(page_outcomes, o)
    /\ IF o = "ok" \/ Caught(o)
       THEN LET found == ExtractedLinks(o, q)
                acc == AppendNew([links |-> all_links, unique |-> all_unique_links],
                                 found)
            IN /\ all_links' = acc.links
               /\ all_unique_links' = acc.unique
               /\ page_results' = Append(page_results, found)
               /\ trace' = trace \o <<"fetch">> \o
                           (IF DelayDue(page_num, EndPage(start_page, max_pages))
                            THEN <<"delay">> ELSE <<>>)
               /\ page_num' = page_num + 1
               /\ hpc' = hpc
       ELSE /\ hpc' = "raised"
            /\ trace' = trace \o <<"fetch">>
            /\ UNCHANGED <<all_links, all_unique_links, page_results, page_num>>
    /\ UNCHANGED <<start_page, max_pages, output_file, link_file>>
    /\ UNCHANGED <<cvars, fvars, pvars, xvars, lvars, svars, dvars>>

\* the range is exhausted: write all_links to output_file when one is given
\* (an exception of open or write is logged and swallowed) and return
SaveLinksAndReturn(io) ==
    /\ hpc = "loop"
    /\ page_num > EndPage(start_page, max_pages)
    /\ link_file' = IF output_file /\ io = "ok"
                    THEN [written |-> TRUE, lines |-> all_links]
                    ELSE NoLinkFile
    /\ hpc' = "returned"
    /\ UNCHANGED <<start_page, max_pages, output_file, page_num, fetched_pages,
                   page_outcomes, page_results, all_links, all_unique_links, trace>>
    /\ UNCHANGED <<cvars, fvars, pvars, xvars, lvars, svars, dvars>>

InitHarvest ==
    /\ start_page \in StartPages
    /\ max_pages \in 0..MaxPages
    /\ output_file \in BOOLEAN
    /\ page_num = start_page
    /\ fetched_pages = <<>>
    /\ page_outcomes = <<>>
    /\ page_results = <<>>
    /\ all_links = <<>>
    /\ all_unique_links = {}
    /\ trace = <<>>
    /\ link_file = NoLinkFile
    /\ hpc = "loop"
    /\ CombineIdle
    /\ FetchIdle
    /\ PropsIdle
    /\ PriceIdle
    /\ LinksIdle
    /\ SinkIdle
    /\ DetailsIdle

NextHarvest ==
    \/ \E o \in PageOutcomes, q \in PageLists : ScrapePage(o, q)
    \/ \E io \in {"ok", "fails"} : SaveLinksAndReturn(io)

SpecHarvest == InitHarvest /\ [][NextHarvest]_vars

(***************************************************************************)
(* Record Sink (utils.save_to_csv, utils.save_specs_summary) as main       *)
(* drives it, and the discovered-fields set of the Field Extractor         *)
(***************************************************************************)

MaxRecords == 2     \* records handed to save_to_csv at most

\* the characters of the column names and specification labels of the model
Chars ==
    ("url" :> <<"u", "r", "l">>) @@
    ("title" :> <<"t", "i", "t", "l", "e">>) @@
    ("location" :> <<"l", "o", "c", "a", "t", "i", "o", "n">>) @@
    ("price" :> <<"p", "r", "i", "c", "e">>) @@
    ("price_numeric" :> <<"p", "r", "i", "c", "e", "_", "n", "u", "m", "e", "r", "i", "c">>) @@
    ("original_price" :> <<"o", "r", "i", "g", "i", "n", "a", "l", "_", "p", "r", "i", "c", "e">>) @@
    ("original_price_numeric" :> <<"o", "r", "i", "g", "i", "n", "a", "l", "_", "p", "r", "i", "c", "e", "_", "n", "u", "m", "e", "r", "i", "c">>) @@
    ("savings" :> <<"s", "a", "v", "i", "n", "g", "s">>) @@
    ("property_type" :> <<"p", "r", "o", "p", "e", "r", "t", "y", "_", "t", "y", "p", "e">>) @@
    ("updated_date" :> <<"u", "p", "d", "a", "t", "e", "d", "_", "d", "a", "t", "e">>) @@
    ("posted_by" :> <<"p", "o", "s", "t", "e", "d", "_", "b", "y">>) @@
    ("description" :> <<"d", "e", "s", "c", "r", "i", "p", "t", "i", "o", "n">>) @@
    ("installment_info" :> <<"i", "n", "s", "t", "a", "l", "l", "m", "e", "n", "t", "_", "i", "n", "f", "o">>) @@
    ("specifications_text" :> <<"s", "p", "e", "c", "i", "f", "i", "c", "a", "t", "i", "o", "n", "s", "_", "t", "e", "x", "t">>) @@
    ("facilities_text" :> <<"f", "a", "c", "i", "l", "i", "t", "i", "e", "s", "_", "t", "e", "x", "t">>) @@
    ("poi_text" :> <<"p", "o", "i", "_", "t", "e", "x", "t">>) @@
    ("fasilitas_rumah_text" :> <<"f", "a", "s", "i", "l", "i", "t", "a", "s", "_", "r", "u", "m", "a", "h", "_", "t", "e", "x", "t">>) @@
    ("fasilitas_perumahan_text" :> <<"f", "a", "s", "i", "l", "i", "t", "a", "s", "_", "p", "e", "r", "u", "m", "a", "h", "a", "n", "_", "t", "e", "x", "t">>) @@
    ("perabotan_text" :> <<"p", "e", "r", "a", "b", "o", "t", "a", "n", "_", "t", "e", "x", "t">>) @@
    ("spec_luas_tanah" :> <<"s", "p", "e", "c", "_", "l", "u", "a", "s", "_", "t", "a", "n", "a", "h">>) @@
    ("facility_ac" :> <<"f", "a", "c", "i", "l", "i", "t", "y", "_", "a", "c">>) @@
    ("poi_sekolah_text" :> <<"p", "o", "i", "_", "s", "e", "k", "o", "l", "a", "h", "_", "t", "e", "x", "t">>) @@
    ("all_specifications" :> <<"a", "l", "l", "_", "s", "p", "e", "c", "i", "f", "i", "c", "a", "t", "i", "o", "n", "s">>) @@
    ("error" :> <<"e", "r", "r", "o", "r">>) @@
    ("luas tanah" :> <<"l", "u", "a", "s", " ", "t", "a", "n", "a", "h">>) @@
    ("kamar tidur" :> <<"k", "a", "m", "a", "r", " ", "t", "i", "d", "u", "r">>)

\* the keys of property_data in the order the dict literal and the category
\* loop insert them
PropertyDataOrder ==
    <<
     "url", "title", "location", "price", "price_numeric", "original_price",
     "original_price_numeric", "savings", "property_type", "updated_date",
     "posted_by", "description", "installment_info", "specifications_text",
     "facilities_text", "poi_text", "fasilitas_rumah_text",
     "fasilitas_perumahan_text", "perabotan_text"
    >>

PropertyDataKeys == Range(PropertyDataOrder)

\* what extract_property_details did for one listing: the keys of the dict
\* it returned and the labels it added to its ALL_SPEC_FIELDS.  In turn: a
\* page without specification rows; pages with rows, split_details False;
\* a page read with split_details True; the error dict; a record that
\* carries the tracking key all_specifications.
RecordShapes ==
    {[keys |-> PropertyDataKeys, labels |-> {}],
     [keys |-> PropertyDataKeys, labels |-> {"luas tanah"}],
     [keys |-> PropertyDataKeys \cup {"poi_sekolah_text"},
      labels |-> {"luas tanah", "kamar tidur"}],
     [keys |-> PropertyDataKeys \cup
                  {"spec_luas_tanah", "facility_ac", "poi_sekolah_text"},
      labels |-> {"luas tanah"}],
     [keys |-> {"url", "error"}, labels |-> {}],
     [keys |-> PropertyDataKeys \cup {"all_specifications"}, labels |-> {}]}

\* sorted(list of str)
RECURSIVE SortedNames(_)
SortedNames(S) ==
    IF S = {} THEN <<>>
    ELSE LET m == CHOOSE x \in S : \A y \in S \ {x} : StrLess(Chars[x], Chars[y])
         IN  <<m>> \o SortedNames(S \ {m})

\* all_fields: the keys of all records, without all_specifications
AllFields(d) == UNION {d[k] : k \in 1..Len(d)} \ {"all_specifications"}

\* ordered_fields: sorted(list(all_fields)), error moved to the end
OrderedFields(d) ==
    LET ordered == SortedNames(AllFields(d))
    IN  IF "error" \in AllFields(d)
        THEN Append(SelectSeq(ordered, LAMBDA x : x # "error"), "error")
        ELSE ordered

Str_backup == <<"b", "a", "c", "k", "u", "p", "_">>

\* f"rumah123_properties_{timestamp}.csv", the timestamp left out
GeneratedName == <<"r", "u", "m", "a", "h", "1", "2", "3", "_", "p", "r", "o", "p", "e", "r", "t", "i", "e", "s", "_", ".", "c", "s", "v">>

\* the filename argument: none, a path like the one main builds from its
\* results directory, and such a path under --output-dir backup_out
Filenames ==
    {<<>>,
     <<"o", "u", "t", "/", "f", "i", "n", "a", "l", ".", "c", "s", "v">>,
     <<"b", "a", "c", "k", "u", "p", "_", "o", "u", "t", "/", "f", "i", "n", "a", "l", ".", "c", "s", "v">>}

NoCsvFile == [written |-> FALSE, name |-> <<>>, header |-> <<>>]
NoSpecsFile == [written |-> FALSE, rows |-> <<>>]
NotReturned == [kind |-> "pending"]
ReturnedName(fn) == [kind |-> "str", text |-> fn]

\* extract_property_details handled one listing: its labels went into
\* property_scraper.ALL_SPEC_FIELDS, its dict into the list to save
AddRecord(shape) ==
    /\ spc = "scraping"
    /\ Len(data) < MaxRecords
    /\ data' = Append(data, shape.keys)
    /\ ALL_SPEC_FIELDS' = ALL_SPEC_FIELDS \cup shape.labels
    /\ UNCHANGED <<utils_ALL_SPEC_FIELDS, filename, write_attempts, csv_file,
                   saved_file, specs_file, spc>>
    /\ UNCHANGED <<cvars, fvars, pvars, xvars, lvars, hvars, dvars>>

\* save_to_csv(data, fn) up to its try block: the default file name, and
\* None for empty data
SaveToCsv(fn) ==
    /\ spc = "scraping"
    /\ filename' = IF fn = <<>> THEN GeneratedName ELSE fn
    /\ IF data = <<>>
       THEN saved_file' = NoneValue /\ spc' = "saved"
       ELSE saved_file' = saved_file /\ spc' = "writing"
    /\ UNCHANGED <<data, ALL_SPEC_FIELDS, utils_ALL_SPEC_FIELDS, write_attempts,
                   csv_file, specs_file>>
    /\ UNCHANGED <<cvars, fvars, pvars, xvars, lvars, hvars, dvars>>

\* the try block of save_to_csv: makedirs, open, the header and the rows;
\* on an exception the call on "backup_" + filename, unless filename starts
\* with "backup_", and then None
WriteCsv(io) ==
    /\ spc = "writing"
    /\ write_attempts' = Append(write_attempts, filename)
    /\ IF io = "ok"
       THEN /\ csv_file' = [written |-> TRUE, name |-> filename,
                            header |-> OrderedFields(data)]
            /\ saved_file' = ReturnedName(filename)
            /\ spc' = "saved"
            /\ UNCHANGED filename
       ELSE IF ~StartsWith(filename, Str_backup)
       THEN /\ filename' = Str_backup \o filename
            /\ UNCHANGED <<csv_file, saved_file, spc>>
       ELSE /\ saved_file' = NoneValue
            /\ spc' = "saved"
            /\ UNCHANGED <<csv_file, filename>>
    /\ UNCHANGED <<data, ALL_SPEC_FIELDS, utils_ALL_SPEC_FIELDS, specs_file>>
    /\ UNCHANGED <<cvars, fvars, pvars, xvars, lvars, hvars, dvars>>

\* main, if saved_file: save_specs_summary writes the header row and
\* sorted(list(ALL_SPEC_FIELDS)) of utils, one label a row
SaveSpecsSummary(io) ==
    /\ spc = "saved"
    /\ saved_file # NoneValue
    /\ specs_file' = IF io = "ok"
                     THEN [written |-> TRUE,
                           rows |-> SortedNames(utils_ALL_SPEC_FIELDS)]
                     ELSE NoSpecsFile
    /\ spc' = "done"
    /\ UNCHANGED <<data, ALL_SPEC_FIELDS, utils_ALL_SPEC_FIELDS, filename,
                   write_attempts, csv_file, saved_file>>
    /\ UNCHANGED <<cvars, fvars, pvars, xvars, lvars, hvars, dvars>>

\* main, else: "Failed to save final CSV file."
SaveFailed ==
    /\ spc = "saved"
    /\ saved_file = NoneValue
    /\ spc' = "done"
    /\ UNCHANGED <<data, ALL_SPEC_FIELDS, utils_ALL_SPEC_FIELDS, filename,
                   write_attempts, csv_file, saved_file, specs_file>>
    /\ UNCHANGED <<cvars, fvars, pvars, xvars, lvars, hvars, dvars>>

InitSink ==
    /\ data = <<>>
    /\ ALL_SPEC_FIELDS = {}
    /\ utils_ALL_SPEC_FIELDS = {}
    /\ filename = <<>>
    /\ write_attempts = <<>>
    /\ csv_file = NoCsvFile
    /\ saved_file = NotReturned
    /\ specs_file = NoSpecsFile
    /\ spc = "scraping"
    /\ CombineIdle
    /\ FetchIdle
    /\ PropsIdle
    /\ PriceIdle
    /\ LinksIdle
    /\ HarvestIdle
    /\ DetailsIdle

NextSink ==
    \/ \E shape \in RecordShapes : AddRecord(shape)
    \/ \E fn \in Filenames : SaveToCsv(fn)
    \/ \E io \in {"ok", "fails"} : WriteCsv(io)
    \/ \E io \in {"ok", "fails"} : SaveSpecsSummary(io)
    \/ SaveFailed

SpecSink == InitSink /\ [][NextSink]_vars

(***************************************************************************)
(* Field Extractor, the body of extract_property_details: date and poster, *)
(* specifications, facilities with their fallback, points of interest      *)
(***************************************************************************)

Letters ==
    {
     "a", "b", "c", "d", "e", "f", "g", "h", "i", "j", "k", "l", "m", "n",
     "o", "p", "q", "r", "s", "t", "u", "v", "w", "x", "y", "z", "A", "B",
     "C", "D", "E", "F", "G", "H", "I", "J", "K", "L", "M", "N", "O", "P",
     "Q", "R", "S", "T", "U", "V", "W", "X", "Y", "Z"
    }

Digits == Range(DigitChars)
Spaces == {" "}
\* \w
WordChars == Letters \cup Digits \cup {"_"}

\* where a run of characters of one class that starts at i ends: the first
\* position from i on that holds another character, Len(t) + 1 if none
SpanEnd(t, i, cls) ==
    CHOOSE j \in i..(Len(t) + 1) :
        /\ j = Len(t) + 1 \/ t[j] \notin cls
        /\ \A k \in i..(j - 1) : t[k] \in cls

NoMatch == [matched |-> FALSE, group |-> <<>>]
Match(g) == [matched |-> TRUE, group |-> g]

Str_Diperbarui == <<"D", "i", "p", "e", "r", "b", "a", "r", "u", "i">>
Str_oleh == <<"o", "l", "e", "h">>

\* r'Diperbarui\s+(\d+\s+\w+\s+\d+)' tried at position i.  The classes
\* \d and \w are both disjoint from \s, so every run is taken whole.
DateMatchAt(t, i) ==
    IF \/ i + Len(Str_Diperbarui) - 1 > Len(t)
       \/ SubSeq(t, i, i + Len(Str_Diperbarui) - 1) # Str_Diperbarui
    THEN NoMatch
    ELSE LET a == i + Len(Str_Diperbarui)
             b == SpanEnd(t, a, Spaces)
             c == SpanEnd(t, b, Digits)
             d == SpanEnd(t, c, Spaces)
             e == SpanEnd(t, d, WordChars)
             f == SpanEnd(t, e, Spaces)
             g == SpanEnd(t, f, Digits)
         IN  IF b > a /\ c > b /\ d > c /\ e > d /\ f > e /\ g > f
             THEN Match(SubSeq(t, b, g - 1))
             ELSE NoMatch

\* r'oleh\s+(.+)$' tried at position i: white space, then at least one more
\* character up to the end (\s+ gives one back when it reached the end)
PosterMatchAt(t, i) ==
    IF \/ i + Len(Str_oleh) - 1 > Len(t)
       \/ SubSeq(t, i, i + Len(Str_oleh) - 1) # Str_oleh
    THEN NoMatch
    ELSE LET a == i + Len(Str_oleh)
             b == SpanEnd(t, a, Spaces)
         IN  IF b > a /\ b <= Len(t) THEN Match(SubSeq(t, b, Len(t)))
             ELSE IF b > a + 1 THEN Match(SubSeq(t, b - 1, Len(t)))
             ELSE NoMatch

\* re.search: the match at the leftmost position that has one
DateSearch(t) ==
    LET hits == {i \in 1..Len(t) : DateMatchAt(t, i).matched}
    IN  IF hits = {} THEN NoMatch
        ELSE DateMatchAt(t, CHOOSE i \in hits : \A j \in hits : i <= j)

PosterSearch(t) ==
    LET hits == {i \in 1..Len(t) : PosterMatchAt(t, i).matched}
    IN  IF hits = {} THEN NoMatch
        ELSE PosterMatchAt(t, CHOOSE i \in hits : \A j \in hits : i <= j)

\* str.replace(old, new) for a one-character old and a new of any length
RECURSIVE Replace(_, _, _)
Replace(s, old, new) ==
    IF s = <<>> THEN <<>>
    ELSE (IF Head(s) = old THEN new ELSE <<Head(s)>>) \o Replace(Tail(s), old, new)

\* sep.join(list)
RECURSIVE Join(_, _)
Join(sep, ts) ==
    IF ts = <<>> THEN <<>>
    ELSE IF Len(ts) = 1 THEN ts[1]
    ELSE ts[1] \o sep \o Join(sep, Tail(ts))

StrValue(t) == [kind |-> "str", text |-> t]
TrueValue == [kind |-> "bool", value |-> TRUE]

\* property_data[k] = v
Put(rec, k, v) == [x \in DOMAIN rec \cup {k} |-> IF x = k THEN v ELSE rec[x]]

\* property_data[k] = v for every k of a list
RECURSIVE PutAll(_, _, _)
PutAll(rec, ks, v) ==
    IF ks = <<>> THEN rec ELSE PutAll(Put(rec, Head(ks), v), Tail(ks), v)

\* the dict literal of lines 59-76, keyed by the characters of each key
FreshPropertyData ==
    [k \in {Chars[n] : n \in PropertyDataKeys \ {"fasilitas_rumah_text",
                "fasilitas_perumahan_text", "perabotan_text", "url"}} |->
        IF k \in {Chars["specifications_text"], Chars["facilities_text"],
                  Chars["poi_text"]}
        THEN StrValue(<<>>) ELSE NoneValue]
    @@ (Chars["url"] :> StrValue(<<"u">>))

\* the texts of the element p.text-3xs.text-gray-400
DateByTexts ==
    {<<"D", "i", "p", "e", "r", "b", "a", "r", "u", "i", " ", "1", "2", " ", "M", "e", "i", " ", "2", "0", "2", "4", " ", "o", "l", "e", "h", " ", "B", "u", "d", "i">>,
     <<"D", "i", "p", "e", "r", "b", "a", "r", "u", "i", " ", " ", "3", " ", "J", "a", "n", " ", "2", "0", "2", "5", " ", " ", "o", "l", "e", "h", " ", " ", "P", "T", " ", "M", "a", "j", "u", " ">>,
     <<"D", "i", "p", "e", "r", "b", "a", "r", "u", "i", " ", "1", "2", " ", "M", "e", "i", " ", "2", "0", "2", "4">>,
     <<"o", "l", "e", "h", " ", "B", "u", "d", "i">>,
     <<"D", "i", "p", "e", "r", "b", "a", "r", "u", "i", " ", "k", "e", "m", "a", "r", "i", "n", " ", "o", "l", "e", "h", " ", "B", "u", "d", "i">>,
     <<"T", "a", "y", "a", "n", "g", " ", "1", "2", " ", "M", "e", "i", " ", "2", "0", "2", "4">>,
     <<>>}

NoElement == [present |-> FALSE, text |-> <<>>]
Element(t) == [present |-> TRUE, text |-> t]


\* the label and value elements of the specification rows the four
\* selectors find, in the order the loops meet them
SpecItemLists ==
    {<<>>,
     <<[label |-> <<"L", "u", "a", "s", " ", "T", "a", "n", "a", "h", ":">>, value |-> <<"1", "2", "0">>]>>,
     <<[label |-> <<" ", "L">>, value |-> <<"1">>]>>,
     <<[label |-> <<"L", "u", "a", "s", " ", "T", "a", "n", "a", "h", ":">>, value |-> <<"1", "2", "0">>],
       [label |-> <<"K", "a", "m", "a", "r", " ", "T", "i", "d", "u", "r">>, value |-> <<"3">>]>>}

\* all_specs[k] = v on a dict kept as the list of its items
DictSet(dict, k, v) ==
    IF \E i \in 1..Len(dict) : dict[i].key = k
    THEN [i \in 1..Len(dict) |-> IF dict[i].key = k THEN [key |-> k, value |-> v]
                                 ELSE dict[i]]
    ELSE Append(dict, [key |-> k, value |-> v])

\* the loop over spec_items: label lower-cased, short labels and empty
\* values skipped, the colon removed
RECURSIVE SpecsFrom(_, _)
SpecsFrom(dict, items) ==
    IF items = <<>> THEN dict
    ELSE LET label == LowerStr(Strip(Head(items).label))
             value == Strip(Head(items).value)
             clean_label == Strip(Replace(label, ":", <<>>))
         IN  SpecsFrom(IF Len(label) < 2 \/ Len(value) < 1 THEN dict
                       ELSE DictSet(dict, clean_label, value),
                       Tail(items))

Str_spec == <<"s", "p", "e", "c", "_">>
Str_facility == <<"f", "a", "c", "i", "l", "i", "t", "y", "_">>
Str_poi == <<"p", "o", "i", "_">>
Str_text == <<"_", "t", "e", "x", "t">>
Underscore == <<"_">>
CommaSpace == <<",", " ">>
SemicolonSpace == <<";", " ">>
ColonSpace == <<":", " ">>

\* f"spec_{key.replace(' ', '_').replace(':', '').replace(',', '').replace(';', '')}"
SpecColumn(key) ==
    Str_spec \o Replace(Replace(Replace(Replace(key, " ", Underscore),
                                        ":", <<>>), ",", <<>>), ";", <<>>)

\* x.lower().replace(' ', '_').replace('-', '_').replace('.', '').replace(',', '')
Slug(x) ==
    Replace(Replace(Replace(Replace(LowerStr(x), " ", Underscore),
                            "-", Underscore), ".", <<>>), ",", <<>>)

FacilityColumn(facility_name) == Str_facility \o Slug(facility_name)

\* f"{category.lower().replace(' ', '_')}_text"
CategoryTextKey(category) ==
    Replace(LowerStr(category), " ", Underscore) \o Str_text

\* for key, value in all_specs.items(): property_data[column_name] = value
RECURSIVE PutSpecColumns(_, _)
PutSpecColumns(rec, dict) ==
    IF dict = <<>> THEN rec
    ELSE PutSpecColumns(Put(rec, SpecColumn(Head(dict).key), StrValue(Head(dict).value)),
                        Tail(dict))

\* the texts of a list of elements, stripped, the empty ones left out
NonBlank(items) ==
    SelectSeq([i \in 1..Len(items) |-> Strip(items[i])], LAMBDA x : x # <<>>)

facility_categories ==
    <<<<"F", "a", "s", "i", "l", "i", "t", "a", "s", " ", "R", "u", "m", "a", "h">>,
      <<"F", "a", "s", "i", "l", "i", "t", "a", "s", " ", "P", "e", "r", "u", "m", "a", "h", "a", "n">>,
      <<"P", "e", "r", "a", "b", "o", "t", "a", "n">>>>

\* the ids, after "property-facility-", of the facility sections a page can
\* have, in document order: the three categories and one more
SectionIds == facility_categories \o <<<<"L", "a", "i", "n", "n", "y", "a">>>>

NoSection == [present |-> FALSE, items |-> <<>>]
Section(items) == [present |-> TRUE, items |-> items]

\* what a section can hold: nothing, or one item
SectionChoices(id) ==
    {NoSection, Section(<<>>),
     Section(<<IF id = facility_categories[2]
               THEN <<"K", "o", "l", "a", "m", " ", "R", "e", "n", "a", "n", "g">>
               ELSE IF id = SectionIds[4] THEN <<"T", "a", "m", "a", "n">>
               ELSE <<"A", "C">>>>)}

NoPoi == [present |-> FALSE, categories |-> <<>>]

\* div#property-poi: absent, without a category, or with one category
PoiChoices ==
    {NoPoi,
     [present |-> TRUE, categories |-> <<>>],
     [present |-> TRUE,
      categories |-> <<[name |-> <<"S", "e", "k", "o", "l", "a", "h">>,
                        items |-> <<<<"S", "D", " ", "1">>>>]>>]}


\* lines 119-129: the date/poster element, stripped, and the two searches
ParseDatePoster ==
    /\ dpc = "date"
    /\ property_record' =
          IF ~soup.date_by.present THEN property_record
          ELSE LET date_by_text == Strip(soup.date_by.text)
                   date_match == DateSearch(date_by_text)
                   poster_match == PosterSearch(date_by_text)
                   dated == IF date_match.matched
                            THEN Put(property_record, Chars["updated_date"],
                                     StrValue(date_match.group))
                            ELSE property_record
               IN  IF poster_match.matched
                   THEN Put(dated, Chars["posted_by"],
                            StrValue(Strip(poster_match.group)))
                   ELSE dated
    /\ dpc' = "specs"
    /\ UNCHANGED <<split_details, soup, all_specs, category_facilities,
                   all_facilities, fallback_ran>>
    /\ UNCHANGED <<cvars, fvars, pvars, xvars, lvars, hvars, svars>>

\* lines 138-182: all_specs, ALL_SPEC_FIELDS, the spec_ columns when
\* split_details, specifications_text
CollectSpecs ==
    /\ dpc = "specs"
    /\ LET specs == SpecsFrom(<<>>, soup.spec_items)
           split == IF split_details THEN PutSpecColumns(property_record, specs)
                    ELSE property_record
           spec_strings == [i \in 1..Len(specs) |->
                               specs[i].key \o ColonSpace \o specs[i].value]
       IN  /\ all_specs' = specs
           /\ ALL_SPEC_FIELDS' =
                 ALL_SPEC_FIELDS \cup {specs[i].key : i \in 1..Len(specs)}
           /\ property_record' =
                 IF specs # <<>>
                 THEN Put(split, Chars["specifications_text"],
                          StrValue(Join(SemicolonSpace, spec_strings)))
                 ELSE split
    /\ dpc' = "facilities"
    /\ UNCHANGED <<split_details, soup, category_facilities, all_facilities,
                   fallback_ran>>
    /\ UNCHANGED <<data, utils_ALL_SPEC_FIELDS, filename, write_attempts, csv_file,
                   saved_file, specs_file, spc>>
    /\ UNCHANGED <<cvars, fvars, pvars, xvars, lvars, hvars>>

\* category_facilities of one category: the items of the element with the
\* id of the category, if the page has it
FirstPass(sections, category) ==
    IF sections[category].present THEN NonBlank(sections[category].items) ELSE <<>>

\* the loop over facility_categories of lines 212-248
RECURSIVE CategoryLoop(_, _, _, _)
CategoryLoop(rec, sections, categories, split) ==
    IF categories = <<>> THEN rec
    ELSE LET names == FirstPass(sections, Head(categories))
             columns == [i \in 1..Len(names) |-> FacilityColumn(names[i])]
             flagged == IF split THEN PutAll(rec, columns, TrueValue) ELSE rec
             texted == IF names # <<>>
                       THEN Put(flagged, CategoryTextKey(Head(categories)),
                                StrValue(Join(CommaSpace, names)))
                       ELSE flagged
         IN  CategoryLoop(texted, sections, Tail(categories), split)

\* all_facilities after the loop
RECURSIVE AllFirstPass(_, _)
AllFirstPass(sections, categories) ==
    IF categories = <<>> THEN <<>>
    ELSE FirstPass(sections, Head(categories))
         \o AllFirstPass(sections, Tail(categories))

\* lines 198-252: the category text fields, the first pass over the three
\* categories, facilities_text
CollectFacilities ==
    /\ dpc = "facilities"
    /\ LET text_keys == [i \in 1..Len(facility_categories) |->
                            CategoryTextKey(facility_categories[i])]
           initialised == PutAll(property_record, text_keys, StrValue(<<>>))
           looped == CategoryLoop(initialised, soup.sections, facility_categories,
                                  split_details)
           found == AllFirstPass(soup.sections, facility_categories)
       IN  /\ category_facilities' =
                 [c \in Range(facility_categories) |-> FirstPass(soup.sections, c)]
           /\ all_facilities' = found
           /\ property_record' =
                 IF found # <<>>
                 THEN Put(looped, Chars["facilities_text"],
                          StrValue(Join(CommaSpace, found)))
                 ELSE looped
    /\ dpc' = "fallback"
    /\ UNCHANGED <<split_details, soup, all_specs, fallback_ran>>
    /\ UNCHANGED <<cvars, fvars, pvars, xvars, lvars, hvars, svars>>

\* soup.select("div[id^='property-facility'] ... span.text-sm.font-light"):
\* the items of every facility section, whatever its id
RECURSIVE GenericItems(_, _)
GenericItems(sections, ids) ==
    IF ids = <<>> THEN <<>>
    ELSE (IF sections[Head(ids)].present THEN sections[Head(ids)].items ELSE <<>>)
         \o GenericItems(sections, Tail(ids))

\* lines 254-270: if not all_facilities, the generic pass
FacilityFallback ==
    /\ dpc = "fallback"
    /\ IF all_facilities = <<>>
       THEN /\ fallback_ran' = TRUE
            /\ LET generic_facility_items == GenericItems(soup.sections, SectionIds)
                   generic_facilities == NonBlank(generic_facility_items)
                   columns == [i \in 1..Len(generic_facilities) |->
                                  FacilityColumn(generic_facilities[i])]
               IN  property_record' =
                      IF generic_facility_items # <<>>
                      THEN Put(PutAll(property_record, columns, TrueValue),
                               Chars["facilities_text"],
                               StrValue(Join(CommaSpace, generic_facilities)))
                      ELSE property_record
       ELSE UNCHANGED <<fallback_ran, property_record>>
    /\ dpc' = "poi"
    /\ UNCHANGED <<split_details, soup, all_specs, category_facilities,
                   all_facilities>>
    /\ UNCHANGED <<cvars, fvars, pvars, xvars, lvars, hvars, svars>>


\* f"poi_{category_name.lower()...}" + "_text"
PoiCategoryTextKey(category_name) == Str_poi \o Slug(category_name) \o Str_text

\* f"poi_{category_name.lower()}_{poi.lower()...}"
PoiColumn(category_name, poi) ==
    Str_poi \o LowerStr(category_name) \o Underscore \o Slug(poi)

\* the loop over poi_categories of lines 284-315
RECURSIVE PoiLoop(_, _, _)
PoiLoop(rec, categories, split) ==
    IF categories = <<>> THEN rec
    ELSE LET category_name == Strip(Head(categories).name)
             category_pois == NonBlank(Head(categories).items)
             columns == [i \in 1..Len(category_pois) |->
                            PoiColumn(category_name, category_pois[i])]
             texted == Put(rec, PoiCategoryTextKey(category_name),
                           StrValue(Join(CommaSpace, category_pois)))
         IN  PoiLoop(IF category_pois = <<>> THEN rec
                     ELSE IF split THEN PutAll(texted, columns, TrueValue)
                     ELSE texted,
                     Tail(categories), split)

\* all_pois
RECURSIVE AllPois(_)
AllPois(categories) ==
    IF categories = <<>> THEN <<>>
    ELSE NonBlank(Head(categories).items) \o AllPois(Tail(categories))

\* poi_strings, of the categories that have an item
PoiStrings(categories) ==
    LET kept == SelectSeq(categories, LAMBDA c : NonBlank(c.items) # <<>>)
    IN  [i \in 1..Len(kept) |->
            Strip(kept[i].name) \o ColonSpace \o Join(CommaSpace, NonBlank(kept[i].items))]

Str_poi_structured_text == <<"p", "o", "i", "_", "s", "t", "r", "u", "c", "t", "u", "r", "e", "d", "_", "t", "e", "x", "t">>

\* lines 272-332: the points of interest, and return property_data
CollectPoi ==
    /\ dpc = "poi"
    /\ property_record' =
          IF ~soup.poi.present THEN property_record
          ELSE LET looped == PoiLoop(property_record, soup.poi.categories,
                                     split_details)
                   all_pois == AllPois(soup.poi.categories)
                   texted == IF all_pois # <<>>
                             THEN Put(looped, Chars["poi_text"],
                                      StrValue(Join(CommaSpace, all_pois)))
                             ELSE looped
                   poi_strings == PoiStrings(soup.poi.categories)
               IN  IF poi_strings # <<>>
                   THEN Put(texted, Str_poi_structured_text,
                            StrValue(Join(SemicolonSpace, poi_strings)))
                   ELSE texted
    /\ dpc' = "returned"
    /\ UNCHANGED <<split_details, soup, all_specs, category_facilities,
                   all_facilities, fallback_ran>>
    /\ UNCHANGED <<cvars, fvars, pvars, xvars, lvars, hvars, svars>>

\* the pages: what each selector of the extractor finds
Soups ==
    [date_by : {NoElement} \cup {Element(t) : t \in DateByTexts},
     spec_items : SpecItemLists,
     sections : {f \in [Range(SectionIds) -> UNION {SectionChoices(id) : id \in Range(SectionIds)}] :
                    \A id \in Range(SectionIds) : f[id] \in SectionChoices(id)},
     poi : PoiChoices]

InitDetails ==
    /\ split_details \in BOOLEAN
    /\ soup \in Soups
    /\ property_record = FreshPropertyData
    /\ all_specs = <<>>
    /\ category_facilities = [c \in Range(facility_categories) |-> <<>>]
    /\ all_facilities = <<>>
    /\ fallback_ran = FALSE
    /\ dpc = "date"
    /\ CombineIdle
    /\ FetchIdle
    /\ PropsIdle
    /\ PriceIdle
    /\ LinksIdle
    /\ HarvestIdle
    /\ SinkIdle

NextDetails ==
    \/ ParseDatePoster
    \/ CollectSpecs
    \/ CollectFacilities
    \/ FacilityFallback
    \/ CollectPoi

SpecDetails == InitDetails /\ [][NextDetails]_vars

(***************************************************************************)
(* Session Accumulator: claims C1 - C4                                     *)
(***************************************************************************)

Pre == Folder(archived, combined)
Post == Folder(archived', combined')
IsRun == runs' = runs + 1

\* union of the non-blank stripped lines of all session property_links.txt
SessionLinkUnion(es) ==
    UNION {{Strip(l) : l \in Range(es[e].links)} \ {<<>>}
           : e \in {x \in DOMAIN es : /\ x # "combined_links"
                                      /\ es[x].kind = "dir"
                                      /\ es[x].hasLinks}}

\* union of the lines of all increment files
IncrementLines(folder) == UNION {Range(folder[nm]) : nm \in DOMAIN folder}

\* C1: a run that finds at least one new link writes exactly one new
\* increment file, whose lines are exactly (session link union) minus
\* (lines of the prior increment files), no line twice.
C1_ExactDifference ==
    [][IsRun =>
          LET expected == SessionLinkUnion(entries) \ IncrementLines(Pre)
              created == DOMAIN Post \ DOMAIN Pre
          IN  expected # {} =>
                 \E nm \in created :
                    /\ created = {nm}
                    /\ Range(combined'[nm]) = expected
                    /\ Len(combined'[nm]) = Cardinality(expected)]_vars

\* C1 witness: the second run has written a file although one session link
\* was already recorded (partial overlap of two sessions).
C1_Witness ==
    /\ runs = 2
    /\ lastRun.created # {}
    /\ \A e \in SessionNames : entries[e].hasLinks
    /\ \E nm \in DOMAIN combined \ lastRun.created :
          Range(combined[nm]) \cap SessionLinkUnion(entries) # {}

\* C2: a run that follows a run, with no session link file added or changed
\* in between, creates no increment file and changes none.
C2_Idempotent ==
    [][(IsRun /\ runs >= 1 /\ ~dirty) =>
          /\ DOMAIN Post = DOMAIN Pre
          /\ <<archived, combined>>' = <<archived, combined>>]_vars

\* C2 witness: a run wrote a file and the run right after it, with the same
\* session files, wrote nothing.
C2_Witness ==
    /\ lastRun.quiet
    /\ lastRun.created = {}
    /\ DOMAIN combined # {}

\* no link is held by two increment files: the (file, link) pairs are as
\* many as the links
NoLinkInTwoFiles(folder) ==
    LET pairs == UNION {{<<nm, l>> : l \in Range(folder[nm])} : nm \in DOMAIN folder}
    IN  Cardinality(pairs) = Cardinality({pr[2] : pr \in pairs})

\* C3: no link appears in more than one increment file, and the union of
\* links over all increment files never loses a link from one step to the
\* next.
C3_NoDupMonotone ==
    /\ NoLinkInTwoFiles(Pre)
    /\ [][(<<archived, combined>>' # <<archived, combined>>) =>
             /\ NoLinkInTwoFiles(Post)
             /\ IncrementLines(Pre) \subseteq IncrementLines(Post)]_vars

\* C3 witness: two runs have each written a file, after a second session
\* arrived that repeated a link of the first.
C3_Witness ==
    /\ Cardinality(DOMAIN combined) = 2
    /\ \E l \in RawLines :
          \A e \in SessionNames : entries[e].hasLinks /\ l \in Range(entries[e].links)

\* C4: a run that writes, writes a file named by (highest existing suffix)
\* + 1, two digits zero-padded and three digits past 99; that name is not
\* an existing file's and no existing file changes.
C4_AppendOnly ==
    [][(IsRun /\ <<archived, combined>>' # <<archived, combined>>) =>
          LET pre == Pre
              post == Post
              before == {ParseInt(old) : old \in DOMAIN pre}
          IN  /\ \A old \in DOMAIN pre : old \in DOMAIN post /\ post[old] = pre[old]
              /\ \E nm \in DOMAIN post \ DOMAIN pre :
                    /\ \A i \in before : i < ParseInt(nm)
                    /\ IF before = {} THEN ParseInt(nm) = 1
                                      ELSE ParseInt(nm) - 1 \in before
                    /\ \A i \in 1..Len(nm) : IsDigit(nm[i])
                    /\ Len(nm) = IF ParseInt(nm) <= 99 THEN 2 ELSE 3]_vars

\* C4 witness: runs have written the files numbered 99 and 100.
C4_Witness ==
    /\ <<"9", "9">> \in DOMAIN combined
    /\ <<"1", "0", "0">> \in DOMAIN combined

(***************************************************************************)
(* Field Extractor shell and Page Fetcher: claims C5, C6                   *)
(***************************************************************************)

\* C5: extract_property_details always returns a record whose url is the
\* input url, and after a failed fetch or parse the record holds exactly
\* the keys url and error; no exception leaves the function.
C5_AlwaysARecord ==
    /\ xpc \in {"idle", "called", "fetching", "returned"}
    /\ xpc = "returned" =>
          /\ "url" \in DOMAIN record
          /\ record["url"] = url
          /\ failed => DOMAIN record = {"url", "error"}
          /\ ~failed => "error" \notin DOMAIN record

\* C5 witness: the fetch was retried, ended with status 404, which
\* raise_for_status turned into an exception, and an error record came back.
C5_Witness ==
    /\ xpc = "returned"
    /\ failed
    /\ resp = 404
    /\ attempt >= 2
    /\ DOMAIN record = {"url", "error"}

RetryableStatuses == {429, 500, 502, 503, 504}

\* C6: request_with_backoff returns only a response whose status is not
\* retryable, at the first attempt that gets one and not later; it lets no
\* requests.RequestException through; while every attempt was retryable it
\* has not returned.
C6_RetryUntilFinal ==
    /\ fpc = "returned" => resp \notin RetryableStatuses /\ attempt = firstFinal
    /\ fpc = "raised" => exc # "RequestException"
    /\ firstFinal # 0 => fpc = "returned" /\ attempt = firstFinal
    /\ firstFinal = 0 => fpc # "returned"
    /\ (attempt > 0 /\ firstFinal = 0 /\ exc # "OtherException") =>
          fpc \in {"sleep", "request"}

\* C6 witness: after transport errors and retryable answers, attempt
\* MaxAttempts got a final answer and the call returned.
C6_Witness ==
    /\ fpc = "returned"
    /\ attempt = MaxAttempts
    /\ exc = "RequestException"
    /\ resp = 200

(***************************************************************************)
(* Batch loop: claim C7                                                    *)
(***************************************************************************)

\* C7: with a results directory, when scrape_all_properties returns a
\* non-empty list, an interim file has been written and the latest one holds
\* every record of the returned list.
C7_FinalFlushHoldsAll ==
    (ppc = "returned" /\ results_dir /\ all_properties # <<>>) =>
       /\ flushes > 0
       /\ Range(all_properties) \subseteq Range(interim)

(***************************************************************************)
(* Price normalisation: claims C8, C9                                      *)
(***************************************************************************)

\* the text handed to clean_price by the price step
PriceText == Strip(price_elem.text)

\* the digit/comma/period residue of the text is a number
HasNumericPrefix(t) == FloatParses(CommaToDot(KeepNumeric(t)))

\* the scale of the unit word present, as a power of ten: miliar before
\* juta before ribu / rb
UnitWordExp(t) ==
    LET low == LowerStr(t)
    IN  IF Contains(low, Str_miliar) THEN 9
        ELSE IF Contains(low, Str_juta) THEN 6
        ELSE IF Contains(low, Str_ribu) \/ Contains(low, Str_rb) THEN 3
        ELSE 0

\* C8: for a price text with a numeric prefix and a unit word miliar, juta,
\* ribu or rb, price_numeric is the number times the scale of the first
\* unit word present in that order, the comma read as the decimal separator.
C8_UnitWordScale ==
    (cpc = "returned" /\ price_elem.present /\ HasNumericPrefix(PriceText)
        /\ UnitWordExp(PriceText) # 0) =>
       /\ price_fields.price_numeric.kind = "float"
       /\ price_fields.price_numeric.num = FloatOf(CommaToDot(KeepNumeric(PriceText))).num
       /\ price_fields.price_numeric.exp =
             UnitWordExp(PriceText) - FloatOf(CommaToDot(KeepNumeric(PriceText))).dec

Qualifies(h) ==
    /\ Len(h) >= Len(ListingPrefix)
    /\ \A k \in 1..Len(ListingPrefix) : h[k] = ListingPrefix[k]
    /\ h[Len(h)] = "/"

QualifyingUrls ==
    {Origin \o index_page[k].href :
        k \in {j \in 1..Len(index_page) :
                  index_page[j].hasHref /\ Qualifies(index_page[j].href)}}

\* C10: for a page that was fetched and parsed, extract_links_from_page
\* returns exactly the urls origin + href of the anchors whose href begins
\* with "/properti/" and ends with "/", each once.
C10_ExactListingLinks ==
    (lpc = "returned" /\ index_fetch = "ok") =>
       /\ Range(page_links) = QualifyingUrls
       /\ Len(page_links) = Cardinality(QualifyingUrls)

\* C10 witness: a page with the same listing anchor twice, or with a
\* listing anchor and an anchor of another kind, gave one url.
C10_Witness ==
    /\ lpc = "returned"
    /\ index_fetch = "ok"
    /\ Len(index_page) = 2
    /\ Len(page_links) = 1
    /\ \E k \in 1..2 : index_page[k].hasHref /\ ~Qualifies(index_page[k].href)

(***************************************************************************)
(* Link Harvester, the page loop: claims C11, C12                          *)
(***************************************************************************)

\* the first fetched page (by position) whose result holds the link
FirstSeen(l) ==
    CHOOSE k \in 1..Len(page_results) :
        /\ l \in Range(page_results[k])
        /\ \A j \in 1..(k - 1) : l \notin Range(page_results[j])

\* the place of a link in all_links
PlaceOf(l) == CHOOSE k \in 1..Len(all_links) : all_links[k] = l

\* C11: scrape_all_links fetches the pages start_page, start_page + 1, ...
\* in ascending order, each once, and has fetched exactly max_pages of them
\* when it returns; the returned list has no repetition, holds exactly the
\* links of the per-page results, and a link first seen on an earlier page
\* stands before every link first seen on a later page; the link file, once
\* written, holds that list line by line.
C11_PagesInOrderFirstSeen ==
    /\ \A k \in 1..Len(fetched_pages) : fetched_pages[k] = start_page + k - 1
    /\ Len(fetched_pages) <= max_pages
    /\ hpc = "returned" =>
          /\ Len(fetched_pages) = max_pages
          /\ \A j, k \in 1..Len(all_links) : all_links[j] = all_links[k] => j = k
          /\ Range(all_links) =
                UNION {Range(page_results[k]) : k \in 1..Len(page_results)}
          /\ \A a, b \in Range(all_links) :
                FirstSeen(a) < FirstSeen(b) => PlaceOf(a) < PlaceOf(b)
          /\ link_file.written => link_file.lines = all_links

\* C11 witness: a run over MaxPages pages from page 4 returned; a link of
\* the first page came again on a later page, every link of the site was
\* found, and the link file was written.
C11_Witness ==
    /\ hpc = "returned"
    /\ start_page = 4
    /\ max_pages = MaxPages
    /\ fetched_pages[MaxPages] = 4 + MaxPages - 1
    /\ \E k \in 2..Len(page_results) :
          Range(page_results[1]) \cap Range(page_results[k]) # {}
    /\ Range(all_links) = SiteLinks
    /\ link_file.written
    /\ link_file.lines = all_links

\* C12: every delay of scrape_all_links comes right after a page fetch and,
\* once the run is over, right before the next one: a finished run over
\* n >= 1 pages is fetch, delay, fetch, ..., fetch with n - 1 delays, and a
\* run over no page has none.
C12_DelayOnlyBetweenFetches ==
    /\ \A k \in 1..Len(trace) :
          trace[k] = "delay" =>
             /\ k > 1
             /\ trace[k - 1] = "fetch"
             /\ k < Len(trace) => trace[k + 1] = "fetch"
    /\ hpc = "returned" =>
          /\ trace # <<>> => trace[Len(trace)] = "fetch"
          /\ Cardinality({k \in 1..Len(trace) : trace[k] = "fetch"}) = max_pages
          /\ max_pages >= 1 =>
                Cardinality({k \in 1..Len(trace) : trace[k] = "delay"}) = max_pages - 1

\* C12 witness: a finished run over MaxPages pages that slept MaxPages - 1
\* times.
C12_Witness ==
    /\ hpc = "returned"
    /\ max_pages = MaxPages
    /\ Len(trace) = 2 * MaxPages - 1
    /\ trace[2] = "delay"
    /\ trace[Len(trace)] = "fetch"

(***************************************************************************)
(* Record Sink: claims C13, C14, C15                                       *)
(***************************************************************************)

\* C13: the summary file written at the end of a run has a row for every
\* label that extract_property_details added to its discovered-fields set
\* during the run.
C13_SummaryListsDiscovered ==
    specs_file.written => ALL_SPEC_FIELDS \subseteq Range(specs_file.rows)

\* the first write of the save operation raised
FirstWriteFailed ==
    /\ write_attempts # <<>>
    /\ ~csv_file.written \/ csv_file.name # write_attempts[1]

\* C14: a save operation makes at most two write attempts; when the first
\* one fails, there is exactly one more, on "backup_" + filename; when that
\* one fails too, save_to_csv returns None.
C14_RetriedOnceOnBackup ==
    spc \in {"saved", "done"} =>
       /\ Len(write_attempts) <= 2
       /\ FirstWriteFailed =>
             /\ Len(write_attempts) = 2
             /\ write_attempts[2] = Str_backup \o write_attempts[1]
       /\ Len(write_attempts) = 2 /\ ~csv_file.written => saved_file = NoneValue

\* the core columns in the order property_data gives them
CoreColumns ==
    <<"url", "title", "location", "price", "price_numeric", "original_price",
      "original_price_numeric", "savings", "property_type", "updated_date",
      "posted_by", "description", "installment_info">>

\* the consolidated text columns in the order property_data gives them
TextColumns ==
    <<"specifications_text", "facilities_text", "poi_text",
      "fasilitas_rumah_text", "fasilitas_perumahan_text", "perabotan_text">>

\* a per-item or per-category column of the spec, facility or poi family
IsDynamicColumn(k) ==
    /\ k \notin Range(CoreColumns) \cup Range(TextColumns)
    /\ \/ StartsWith(Chars[k], <<"s", "p", "e", "c", "_">>)
       \/ StartsWith(Chars[k], <<"f", "a", "c", "i", "l", "i", "t", "y", "_">>)
       \/ StartsWith(Chars[k], <<"p", "o", "i", "_">>)

\* core columns, text columns, sorted dynamic columns, the remaining
\* columns, error last
ClaimedColumns(fields) ==
    LET fixed == Range(CoreColumns) \cup Range(TextColumns)
        dynamic == {k \in fields : IsDynamicColumn(k)}
        adhoc == (fields \ (fixed \cup dynamic)) \ {"error"}
    IN  SelectSeq(CoreColumns \o TextColumns, LAMBDA k : k \in fields)
        \o SortedNames(dynamic)
        \o SortedNames(adhoc)
        \o (IF "error" \in fields THEN <<"error">> ELSE <<>>)

\* C15: the header row of the export is the core columns in their stable
\* order, the consolidated text columns, the dynamic spec, facility and poi
\* columns sorted, the remaining columns, and error last.
C15_CoreColumnsFirst ==
    csv_file.written => csv_file.header = ClaimedColumns(AllFields(data))

(***************************************************************************)
(* Field Extractor body: claims C16, C17, C18                              *)
(***************************************************************************)

\* the text of the date/poster element as the code reads it
DateByText == Strip(soup.date_by.text)

\* "Diperbarui <date> ... oleh <name>": the date part, and the poster part
\* after it
FullPatternMatches(t) ==
    \E i, j \in 1..Len(t) :
        i < j /\ DateMatchAt(t, i).matched /\ PosterMatchAt(t, j).matched

\* C16: once the date/poster step is done, updated_date and posted_by are
\* both set or both null, and both are null when the text of the element
\* does not match the full pattern.
C16_DateAndPosterTogether ==
    dpc # "date" =>
       /\ property_record[Chars["updated_date"]] = NoneValue
             <=> property_record[Chars["posted_by"]] = NoneValue
       /\ ~FullPatternMatches(DateByText) =>
             /\ property_record[Chars["updated_date"]] = NoneValue
             /\ property_record[Chars["posted_by"]] = NoneValue

\* C17: after the facility steps, the fallback pass has run for a category
\* exactly if the first pass found no item for that category, whatever it
\* found for the other categories.  The code has one fallback pass, over
\* the sections of all categories.
C17_FallbackPerCategory ==
    dpc \in {"poi", "returned"} =>
       \A c \in Range(facility_categories) :
           fallback_ran <=> category_facilities[c] = <<>>

\* C18: a record returned for split_details = False has no spec_ or
\* facility_ key and no boolean per-item key: only the keys of the core
\* fields and keys that end in _text.
C18_NoItemColumnsUnlessSplit ==
    dpc = "returned" /\ ~split_details =>
       \A k \in DOMAIN property_record :
           /\ ~StartsWith(k, Str_spec)
           /\ ~StartsWith(k, Str_facility)
           /\ property_record[k] # TrueValue
           /\ k \in DOMAIN FreshPropertyData \/ EndsWith(k, Str_text)

(***************************************************************************)
(* Page Fetcher: claim C19                                                 *)
(***************************************************************************)

\* 2, 4, 8, 16, 32 and from then on 60 seconds, in milliseconds
BaseWaitMs(k) == IF 2^k < 60 THEN 2^k * 1000 ELSE 60000

\* C19: the wait computed after the k-th failed attempt is the base wait
\* min(60, 2^k) seconds plus at most one second, so never more than 61
\* seconds; and there has been exactly one sleep between every two
\* attempts: k - 1 sleeps when attempt k is made, k once the wait after it
\* has been slept.
C19_WaitCappedOnePerRetry ==
    /\ fpc = "sleep" =>
          /\ attempt >= 1
          /\ wait >= BaseWaitMs(attempt)
          /\ wait <= BaseWaitMs(attempt) + 1000
          /\ wait <= 61000
          /\ sleeps = attempt - 1
    /\ fpc = "request" => sleeps = attempt
    /\ fpc \in {"returned", "raised"} => sleeps = attempt - 1

\* C19 witness: attempt MaxAttempts failed after MaxAttempts - 1 sleeps, and
\* the wait computed for it is the cap plus the largest jitter.
C19_Witness ==
    /\ fpc = "sleep"
    /\ attempt = MaxAttempts
    /\ sleeps = MaxAttempts - 1
    /\ wait = 61000

(***************************************************************************)
(* Batch loop: claim C20                                                   *)
(***************************************************************************)

\* where a url stands first in links
FirstIndex(u) ==
    CHOOSE i \in 1..Len(links) : links[i] = u /\ \A j \in 1..(i - 1) : links[j] # u

\* C20: after any number of iterations of scrape_all_properties no url has
\* been fetched twice, the urls fetched are those of the links handled so
\* far, in the order of their first occurrence in links; all_properties
\* holds one record for each of them in that order; and the delays are one
\* before every fetch but the first, none for a repeated url.
C20_OncePerUrl ==
    /\ \A j, k \in 1..Len(fetched) : fetched[j] = fetched[k] => j = k
    /\ Range(fetched) = {links[k] : k \in 1..loop_i}
    /\ \A k \in 1..(Len(fetched) - 1) :
          FirstIndex(fetched[k]) < FirstIndex(fetched[k + 1])
    /\ Len(all_properties) = Len(fetched)
    /\ \A k \in 1..Len(all_properties) : all_properties[k].url = fetched[k]
    /\ delays = IF fetched = <<>> THEN 0 ELSE Len(fetched) - 1

\* C20 witness: a list of MaxLinks links whose first url, a page that
\* cannot be fetched, comes again at the end; the run returned after two
\* fetches and one delay.
C20_Witness ==
    /\ ppc = "returned"
    /\ Len(links) = MaxLinks
    /\ links[1] = links[MaxLinks]
    /\ links[2] # links[1]
    /\ links[1] \in badUrls
    /\ Len(fetched) = 2
    /\ Len(all_properties) = 2
    /\ delays = 1

\* the state part of C21: no exception leaves extract_links_from_page, a
\* page whose fetch or parse failed yields the empty list, and a finished
\* run has fetched every page of the range, the pages after a failed one
\* included, and returns every link any page yielded
NoPageFailureSpreads ==
    /\ hpc # "raised"
    /\ Len(page_outcomes) = Len(page_results)
    /\ Len(page_outcomes) = Len(fetched_pages)
    /\ \A k \in 1..Len(page_outcomes) :
          page_outcomes[k] # "ok" => page_results[k] = <<>>
    /\ hpc = "returned" =>
          /\ Range(fetched_pages) = start_page..EndPage(start_page, max_pages)
          /\ \A k \in 1..Len(page_results) :
                Range(page_results[k]) \subseteq Range(all_links)

\* the step part of C21: the pass of the loop over a page that failed leaves
\* all_links and all_unique_links as they were and goes on to the next page
FailedPageStep ==
    (/\ hpc = "loop"
     /\ Len(page_outcomes') = Len(page_outcomes) + 1
     /\ page_outcomes'[Len(page_outcomes')] # "ok")
    => /\ all_links' = all_links
       /\ all_unique_links' = all_unique_links
       /\ page_num' = page_num + 1
       /\ hpc' = "loop"

\* C21: a failure while fetching or parsing one index page stays with that
\* page: extract_links_from_page returns the empty list and does not raise,
\* and scrape_all_links keeps the links of the earlier pages and still
\* fetches every remaining page of the range.
C21_PageFailureIsolated ==
    /\ []NoPageFailureSpreads
    /\ [][FailedPageStep]_vars

\* C21 witness: a finished run over MaxPages pages in which the page before
\* the last failed with an exception; the first and the last page each
\* brought links of their own, and the run returned them all.
C21_Witness ==
    /\ hpc = "returned"
    /\ max_pages = MaxPages
    /\ Len(page_outcomes) = MaxPages
    /\ page_outcomes[1] = "ok"
    /\ page_outcomes[MaxPages - 1] = "exception"
    /\ page_outcomes[MaxPages] = "ok"
    /\ page_results[1] # <<>>
    /\ page_results[MaxPages] # <<>>
    /\ Range(page_results[1]) \cap Range(page_results[MaxPages]) = {}
    /\ Len(all_links) = Len(page_results[1]) + Len(page_results[MaxPages])
    /\ Len(fetched_pages) = MaxPages

====
